---- MODULE Spec2Model ----
(***************************************************************************)
(* Weather chat bot: message interpretation (nlp_engine.py), the weather   *)
(* service with its TTL cache (weather_service.py) and the /chat handler   *)
(* with its session (app.py).                                              *)
(*                                                                         *)
(* Python values are represented as follows.                               *)
(*   str            a TLA+ string; TLC evaluates Len, \o and SubSeq on it  *)
(*   None (a str)   the string NONE, which no message or label contains    *)
(*   float          an integer (coordinates in 1e-5 degree, clock in s)    *)
(*   dict / None    a record with a field that tells the two apart         *)
(***************************************************************************)
EXTENDS Integers, Sequences, FiniteSets, TLC

VARIABLES
    MODEL,      \* nlp_engine._MODEL: the classifier loaded at import, "absent" or "loaded"
    SIA,        \* nlp_engine._SIA: the sentiment analyzer, "absent" or "loaded"
    session,    \* app.py: the Flask session, [last_location |-> ...]
    CACHE,      \* weather_service._CACHE: key -> (ts, data)
    now,        \* time.time(), in seconds
    call,       \* the call under way or last made: its name and arguments
    result      \* what that call did: [status |-> "pending"] until it has run

vars == << MODEL, SIA, session, CACHE, now, call, result >>

-----------------------------------------------------------------------------
(* Strings *)

NONE == "<None>"

Truthy(s) == s # NONE /\ s # ""

\* Python's `a or b` on Optional[str]
Or(a, b) == IF Truthy(a) THEN a ELSE b

Chr(t, i) == SubSeq(t, i, i)

\* Python's `x in t` for strings
Has(t, x) == \E i \in 1..(Len(t) - Len(x) + 1) : SubSeq(t, i, i + Len(x) - 1) = x

HasAny(t, xs) == \E k \in 1..Len(xs) : Has(t, xs[k])

UpperChars == "ABCDEFGHIJKLMNOPQRSTUVWXYZ"
LowerChars == "abcdefghijklmnopqrstuvwxyz"
DigitChars == "0123456789"

CharsOf(t) == {Chr(t, i) : i \in 1..Len(t)}
UpperSet == CharsOf(UpperChars)
LowerSet == CharsOf(LowerChars)
DigitSet == CharsOf(DigitChars)

IsUpper(c) == c \in UpperSet
IsLower(c) == c \in LowerSet
IsAlpha(c) == IsUpper(c) \/ IsLower(c)
IsSpace(c) == c = " "
\* \w of the regex engine
IsWordChar(c) == IsAlpha(c) \/ c \in DigitSet \/ c = "_"
\* the class [a-zA-Z\s,.'-] of _extract_location
IsPlaceChar(c) == IsAlpha(c) \/ IsSpace(c) \/ c \in {",", ".", "'", "-"}

ToLower1(c) ==
    IF IsUpper(c)
    THEN Chr(LowerChars, CHOOSE i \in 1..Len(UpperChars) : Chr(UpperChars, i) = c)
    ELSE c

RECURSIVE lower(_)
lower(t) == IF t = "" THEN "" ELSE ToLower1(Chr(t, 1)) \o lower(SubSeq(t, 2, Len(t)))

RECURSIVE lstrip(_)
lstrip(t) == IF t # "" /\ IsSpace(Chr(t, 1)) THEN lstrip(SubSeq(t, 2, Len(t))) ELSE t

RECURSIVE rstrip(_)
rstrip(t) ==
    IF t # "" /\ IsSpace(Chr(t, Len(t))) THEN rstrip(SubSeq(t, 1, Len(t) - 1)) ELSE t

strip(t) == lstrip(rstrip(t))

-----------------------------------------------------------------------------
(* nlp_engine.py: intents *)

WEATHER_INTENTS ==
    << "temperature_now", "conditions_now", "wind_now", "humidity_now", "rain_now",
       "snow_now", "tomorrow_summary", "tomorrow_rain", "next3days_summary",
       "week_summary", "help" >>

Intents == {WEATHER_INTENTS[i] : i \in 1..Len(WEATHER_INTENTS)}

HelpCues == << "help", "what can you do", "commands", "examples" >>
WeekCues == << "this week", "next 7", "7 day", "week forecast", "weekly" >>
ThreeDayCues == << "next 3", "3 day", "three day", "next three" >>
TemperatureCues == << "temperature", "temp", "how hot", "how cold", "degrees" >>
WindCues == << "wind", "windy", "gust" >>
HumidityCues == << "humidity", "humid" >>
SnowCues == << "snow", "snowfall" >>
RainCues == << "rain", "raining", "precip", "shower" >>
ConditionCues == << "condition", "weather like", "sunny", "cloudy", "clear", "overcast" >>

\* the cascade with the rain cues tried before the snow cues
predict_intent_rules_rain_first(text) ==
    LET t == lower(text)
        has_tomorrow == Has(t, "tomorrow")
        has_week == HasAny(t, WeekCues)
        has_3day == HasAny(t, ThreeDayCues)
    IN  IF HasAny(t, HelpCues) THEN "help"
        ELSE IF HasAny(t, TemperatureCues) THEN "temperature_now"
        ELSE IF HasAny(t, WindCues) THEN "wind_now"
        ELSE IF HasAny(t, HumidityCues) THEN "humidity_now"
        ELSE IF HasAny(t, RainCues)
             THEN (IF has_tomorrow THEN "tomorrow_rain" ELSE "rain_now")
        ELSE IF HasAny(t, SnowCues)
             THEN (IF ~has_tomorrow THEN "snow_now" ELSE "tomorrow_summary")
        ELSE IF HasAny(t, ConditionCues) THEN "conditions_now"
        ELSE IF has_tomorrow THEN "tomorrow_summary"
        ELSE IF has_3day THEN "next3days_summary"
        ELSE IF has_week THEN "week_summary"
        ELSE "conditions_now"

predict_intent_rules(text) ==
    LET t == lower(text)
        has_tomorrow == Has(t, "tomorrow")
        has_week == HasAny(t, WeekCues)
        has_3day == HasAny(t, ThreeDayCues)
    IN  IF HasAny(t, HelpCues) THEN "help"
        ELSE IF HasAny(t, TemperatureCues) THEN "temperature_now"
        ELSE IF HasAny(t, WindCues) THEN "wind_now"
        ELSE IF HasAny(t, HumidityCues) THEN "humidity_now"
        ELSE IF HasAny(t, SnowCues)
             THEN (IF ~has_tomorrow THEN "snow_now" ELSE "tomorrow_summary")
        ELSE IF HasAny(t, RainCues)
             THEN (IF has_tomorrow THEN "tomorrow_rain" ELSE "rain_now")
        ELSE IF HasAny(t, ConditionCues) THEN "conditions_now"
        ELSE IF has_tomorrow THEN "tomorrow_summary"
        ELSE IF has_3day THEN "next3days_summary"
        ELSE IF has_week THEN "week_summary"
        ELSE "conditions_now"

-----------------------------------------------------------------------------
(* nlp_engine.py: slot extraction *)

Suffix(s, i) == SubSeq(s, i, Len(s))

\* \b in front of a letter at position i
WordStartsAt(s, i) == i = 1 \/ ~IsWordChar(Chr(s, i - 1))

\* u starts with kw, under re.IGNORECASE (kw is in lower case)
StartsWithIgnoreCase(u, kw) == Len(u) >= Len(kw) /\ lower(SubSeq(u, 1, Len(kw))) = kw

AllPlaceChars(u) == \A k \in 1..Len(u) : IsPlaceChar(Chr(u, k))

\* the longest prefix of u made of [a-zA-Z\s,.'-]
PlaceRun(u) ==
    LET n == CHOOSE n \in 0..Len(u) :
                 /\ \A k \in 1..n : IsPlaceChar(Chr(u, k))
                 /\ (n < Len(u) => ~IsPlaceChar(Chr(u, n + 1)))
    IN  SubSeq(u, 1, n)

\* \b(?:in|at|for)\s+([a-zA-Z\s,.'-]{2,})$ matched at position i with keyword kw:
\* what follows the keyword is one space at least, then two characters of the class
\* at least (the greedy \s+ gives a space back when a single character follows),
\* up to the end of the text.
PrepositionAt(s, i, kw) ==
    LET rest == Suffix(s, i + Len(kw))
    IN  /\ WordStartsAt(s, i)
        /\ StartsWithIgnoreCase(Suffix(s, i), kw)
        /\ Len(rest) >= 3
        /\ IsSpace(Chr(rest, 1))
        /\ AllPlaceChars(rest)

PrepositionMatch(s, i) == \E kw \in {"in", "at", "for"} : PrepositionAt(s, i, kw)

\* \bweather\s+in\s+([a-zA-Z\s,.'-]{2,}) matched at position i
WeatherInRest(s, i) ==
    LET afterWeather == lstrip(Suffix(s, i + 7))
    IN  Suffix(afterWeather, 3)

WeatherInMatch(s, i) ==
    LET afterWeather == Suffix(s, i + 7)
        run == PlaceRun(WeatherInRest(s, i))
    IN  /\ WordStartsAt(s, i)
        /\ StartsWithIgnoreCase(Suffix(s, i), "weather")
        /\ afterWeather # "" /\ IsSpace(Chr(afterWeather, 1))
        /\ StartsWithIgnoreCase(lstrip(afterWeather), "in")
        /\ Len(run) >= 3
        /\ IsSpace(Chr(run, 1))

\* [A-Z][a-z]+(?:\s+[A-Z][a-z]+){0,3}(?:\s*,\s*[A-Z][a-z]+)?\s*$ from position p on.
\* phase: "U" an upper-case letter opens a word, "L1" its first lower-case letter,
\* "L" inside a word, "S" spaces after a word, "C" after the comma, "T" trailing
\* spaces; n counts the words before the comma, comma tells the comma was read.
RECURSIVE PlaceFrom(_, _, _, _, _)
PlaceFrom(s, p, phase, n, comma) ==
    LET c == Chr(s, p)
        end == p > Len(s)
    IN  CASE phase = "U"  -> ~end /\ IsUpper(c) /\ PlaceFrom(s, p + 1, "L1", n, comma)
          [] phase = "L1" -> ~end /\ IsLower(c) /\ PlaceFrom(s, p + 1, "L", n, comma)
          [] phase = "L"  ->
                \/ end
                \/ ~end /\ IsLower(c) /\ PlaceFrom(s, p + 1, "L", n, comma)
                \/ ~end /\ IsSpace(c) /\ PlaceFrom(s, p + 1, IF comma THEN "T" ELSE "S", n, comma)
                \/ ~end /\ c = "," /\ ~comma /\ PlaceFrom(s, p + 1, "C", n, comma)
          [] phase = "S"  ->
                \/ end
                \/ ~end /\ IsSpace(c) /\ PlaceFrom(s, p + 1, "S", n, comma)
                \/ ~end /\ IsUpper(c) /\ n < 4 /\ PlaceFrom(s, p + 1, "L1", n + 1, comma)
                \/ ~end /\ c = "," /\ PlaceFrom(s, p + 1, "C", n, comma)
          [] phase = "C"  ->
                \/ ~end /\ IsSpace(c) /\ PlaceFrom(s, p + 1, "C", n, comma)
                \/ ~end /\ IsUpper(c) /\ PlaceFrom(s, p + 1, "L1", n, TRUE)
          [] phase = "T"  -> end \/ (~end /\ IsSpace(c) /\ PlaceFrom(s, p + 1, "T", n, comma))

CapitalizedMatch(s, i) == PlaceFrom(s, i, "U", 1, FALSE)

\* re.search: the leftmost position where the pattern matches, 0 when none does
Leftmost(s, M(_, _)) ==
    LET hits == {i \in 1..Len(s) : M(s, i)}
    IN  IF hits = {} THEN 0 ELSE CHOOSE i \in hits : \A j \in hits : i <= j

TemporalWords == {"tomorrow", "today", "week", "morning", "evening"}

\* text is the stripped message, as interpret_message passes it
extract_location(text) ==
    LET s == strip(text)
        i1 == Leftmost(s, PrepositionMatch)
        i2 == Leftmost(text, WeatherInMatch)
        i3 == Leftmost(text, CapitalizedMatch)
    IN  IF i1 # 0
        THEN LET kw == CHOOSE kw \in {"in", "at", "for"} : PrepositionAt(s, i1, kw)
             IN  strip(Suffix(s, i1 + Len(kw)))
        ELSE IF i2 # 0
        THEN strip(PlaceRun(WeatherInRest(text, i2)))
        ELSE IF i3 # 0 /\ Has(strip(text), " ")
        THEN LET guess == strip(Suffix(text, i3))
             IN  IF lower(guess) \notin TemporalWords THEN guess ELSE NONE
        ELSE NONE

Horizons == {"now", "tomorrow", "next3days", "week"}
TimesOfDay == {"morning", "afternoon", "evening", "night"}

extract_time_window(text) ==
    LET t == lower(text)
        horizon == IF Has(t, "tomorrow") THEN "tomorrow"
                   ELSE IF HasAny(t, << "next 3", "3 day", "three day" >>) THEN "next3days"
                   ELSE IF HasAny(t, << "week", "7 day", "next 7" >>) THEN "week"
                   ELSE "now"
        tod == IF Has(t, "morning") THEN "morning"
               ELSE IF Has(t, "afternoon") THEN "afternoon"
               ELSE IF Has(t, "evening") THEN "evening"
               ELSE IF Has(t, "night") THEN "night"
               ELSE NONE
    IN  << horizon, tod >>

-----------------------------------------------------------------------------
(* The texts of the model *)

\* the texts made of at most n of the phrases, separated by one space
RECURSIVE Phrasings(_, _)
Phrasings(P, n) ==
    IF n = 0 THEN {""}
    ELSE LET shorter == Phrasings(P, n - 1)
         IN  shorter \cup {IF m = "" THEN P[k] ELSE m \o " " \o P[k] :
                              m \in shorter, k \in 1..Len(P)}

MaxPhrases == 2

NlpPhrases ==
    << "temperature", "in Lisbon", "What's the weather in Tokyo ", "weather in   5",
       "tomorrow morning?", "Tomorrow" >>

\* the messages given to interpret_message: None, and the phrasings
NlpMessages == {NONE} \cup Phrasings(NlpPhrases, MaxPhrases)

\* the "message" of a /chat payload: missing, or one of these
ChatMessages == {NONE, "temperature", "Tomorrow in Lisbon"}

\* The three text functions of the interpreter, evaluated once for every text it is
\* given here (the stripped messages) and looked up from then on.
Texts == {strip(Or(m, "")) : m \in NlpMessages \cup ChatMessages}

ExtractedLocation == [t \in Texts |-> extract_location(t)]
TimeWindow == [t \in Texts |-> extract_time_window(t)]
RuleIntent == [t \in Texts |-> predict_intent_rules(t)]

-----------------------------------------------------------------------------
(* nlp_engine.py: classifier, sentiment, interpreter *)

RAISES == "<raises>"

\* _MODEL.classify(feats) is the pickled classifier's answer: one of the labels it was
\* trained with, which train_intent_model.py takes from the keys of the training file
\* as they are; or it raises.
TrainingLabels == Intents \cup {"greeting", ""}
ClassifyOutcomes == TrainingLabels \cup {RAISES}

\* classified: what _MODEL.classify does for this text (read only when a model is loaded)
predict_intent_ml(model, classified) ==
    IF model = "absent" THEN NONE
    ELSE IF classified = RAISES THEN NONE
    ELSE classified

\* score: polarity_scores(text)["compound"] in hundredths
sentiment(sia, score) ==
    IF sia = "absent" THEN NONE
    ELSE IF score >= 35 THEN "positive"
    ELSE IF score <= -35 THEN "negative"
    ELSE "neutral"

\* A lat or lon of the request (Any): absent, a number, a numeric string, or a value
\* float() rejects.
NoArg == [kind |-> "none"]
IsNone(x) == x.kind = "none"
FloatOk(x) == x.kind \in {"num", "str"}

NoCoords == [set |-> FALSE]

ERR_NEED_LOCATION ==
    "Which location should I use? Example: **\"Will it rain in Lisbon tomorrow morning?\"**"

\* the remembered location preferred to the one in the message
resolve_location_last_first(extracted, last_loc) == Or(last_loc, extracted)

\* `_extract_location(msg) or last_location`
resolve_location(extracted, last_loc) == Or(extracted, last_loc)

\* `location is None` in the place of `not location`
need_location_none_only(coords, location) == ~coords.set /\ location = NONE

\* `not coords and not location`
need_location(coords, location) == ~coords.set /\ ~Truthy(location)

interpret_message(msg_in, last_loc, lat, lon, classified, score) ==
    LET msg == strip(Or(msg_in, ""))
        coords == IF ~IsNone(lat) /\ ~IsNone(lon) /\ FloatOk(lat) /\ FloatOk(lon)
                  THEN [set |-> TRUE, lat |-> lat.v, lon |-> lon.v]
                  ELSE NoCoords
        location == resolve_location(ExtractedLocation[msg], last_loc)
        tw == TimeWindow[msg]
        intent == Or(predict_intent_ml(MODEL, classified), RuleIntent[msg])
    IN  IF need_location(coords, location)
        THEN [intent |-> intent, horizon |-> tw[1], tod |-> tw[2], coords |-> NoCoords,
              location_label |-> NONE, sentiment |-> sentiment(SIA, score),
              error |-> ERR_NEED_LOCATION]
        ELSE [intent |-> intent, horizon |-> tw[1], tod |-> tw[2], coords |-> coords,
              location_label |-> location, sentiment |-> sentiment(SIA, score),
              error |-> NONE]

-----------------------------------------------------------------------------
(* Calls and their inputs *)

PENDING == [status |-> "pending"]
Returned(v) == [status |-> "returned", value |-> v]

EmptyCache == [k \in {} |-> PENDING]

\* the part of the state a specification of pure functions leaves alone
Idle ==
    /\ session = [last_location |-> NONE]
    /\ CACHE = EmptyCache
    /\ now = 0

-----------------------------------------------------------------------------
(* Numbers *)

\* An optional number (a float or None) is a sequence of length 0 or 1; weather
\* readings are held in tenths of their unit.
None == << >>
Some(v) == << v >>

Abs(x) == IF x < 0 THEN 0 - x ELSE x

RECURSIVE NatToStr(_)
NatToStr(n) ==
    IF n < 10 THEN Chr(DigitChars, n + 1)
    ELSE NatToStr(n \div 10) \o Chr(DigitChars, (n % 10) + 1)

Sign(x) == IF x < 0 THEN "-" ELSE ""

\* n/d rounded to an integer, ties to even, as the float formatting does (n, d >= 0)
RoundRatio(n, d) ==
    LET q == n \div d
        r == n % d
    IN  IF 2 * r > d \/ (2 * r = d /\ q % 2 = 1) THEN q + 1 ELSE q

\* f"{x:.1f}" and f"{x:.0f}" of a reading of x tenths
Fmt1(x) == Sign(x) \o NatToStr(Abs(x) \div 10) \o "." \o NatToStr(Abs(x) % 10)
Fmt0(x) == Sign(x) \o NatToStr(RoundRatio(Abs(x), 10))

\* a format spec applied to None raises TypeError
TYPE_ERROR == "<TypeError>"
F1(v) == IF v = None THEN TYPE_ERROR ELSE Fmt1(v[1])
F0(v) == IF v = None THEN TYPE_ERROR ELSE Fmt0(v[1])

RECURSIVE Concat(_)
Concat(parts) == IF parts = << >> THEN "" ELSE Head(parts) \o Concat(Tail(parts))

RAISED == [status |-> "raised"]

\* the f-string built from the parts, or the exception one of them raised
FString(parts) ==
    IF \E k \in 1..Len(parts) : parts[k] = TYPE_ERROR THEN RAISED
    ELSE Returned(Concat(parts))

RECURSIVE JoinLines(_)
JoinLines(lines) ==
    IF Len(lines) = 1 THEN lines[1] ELSE lines[1] \o "\n" \o JoinLines(Tail(lines))

-----------------------------------------------------------------------------
(* nlp_engine.py: response formatting.  In the texts, "deg" stands for the degree
   sign, "-" for the dash, "~=" for the approximation sign. *)

WEATHER_CODE ==
    (0 :> "clear sky") @@ (1 :> "mainly clear") @@ (2 :> "partly cloudy")
    @@ (3 :> "overcast") @@ (45 :> "fog") @@ (48 :> "depositing rime fog")
    @@ (51 :> "light drizzle") @@ (53 :> "moderate drizzle") @@ (55 :> "dense drizzle")
    @@ (56 :> "freezing drizzle (light)") @@ (57 :> "freezing drizzle (dense)")
    @@ (61 :> "slight rain") @@ (63 :> "moderate rain") @@ (65 :> "heavy rain")
    @@ (66 :> "freezing rain (light)") @@ (67 :> "freezing rain (heavy)")
    @@ (71 :> "slight snow fall") @@ (73 :> "moderate snow fall")
    @@ (75 :> "heavy snow fall") @@ (77 :> "snow grains")
    @@ (80 :> "rain showers (slight)") @@ (81 :> "rain showers (moderate)")
    @@ (82 :> "rain showers (violent)") @@ (85 :> "snow showers (slight)")
    @@ (86 :> "snow showers (heavy)") @@ (95 :> "thunderstorm")
    @@ (96 :> "thunderstorm with hail (slight)")
    @@ (99 :> "thunderstorm with hail (heavy)")

\* _WEATHER_CODE.get(code, "unknown")
Describe(code) ==
    IF code # None /\ code[1] \in DOMAIN WEATHER_CODE THEN WEATHER_CODE[code[1]]
    ELSE "unknown"

\* the hours [start, end) of a time of day, << >> for none
tod_hours(tod) ==
    CASE tod = "morning"   -> << 6, 12 >>
      [] tod = "afternoon" -> << 12, 18 >>
      [] tod = "evening"   -> << 18, 24 >>
      [] tod = "night"     -> << 0, 6 >>
      [] OTHER             -> << >>

NowIntents ==
    {"temperature_now", "conditions_now", "wind_now", "humidity_now", "rain_now",
     "snow_now"}

TONE_PREFIX == "I've got you - "

NO_TOMORROW == "I couldn't get tomorrow's forecast right now. Please try again."
NO_3DAYS == "I couldn't get the next 3 days right now. Please try again."
NO_WEEK == "I couldn't get the weekly forecast right now. Please try again."

HELP_TEXT ==
    "You can ask about:\n"
    \o "- temperature, conditions (sunny/cloudy), wind, humidity, rain/snow\n"
    \o "- tomorrow's forecast, next 3 days, or weekly outlook\n\n"
    \o "Examples:\n"
    \o "* *What's the wind speed in Tokyo?*\n"
    \o "* *Will it rain in Lisbon tomorrow morning?*\n"
    \o "* *3-day forecast for New York*"

FALLBACK_TEXT ==
    "I can help with weather like temperature, conditions, wind, humidity, rain/snow, "
    \o "and forecasts (tomorrow / 3-day / week). Try: **'weather in Berlin'**."

\* the "right now" block
NowReply(intent, cur, location_label, tone_prefix) ==
    LET head == << "**" \o location_label \o "** right now:" >>
        temp == IF intent \in {"temperature_now", "conditions_now"}
                THEN (IF cur.temperature_c # None
                      THEN << "- Temperature: **" \o Fmt1(cur.temperature_c[1]) \o "degC**" >>
                      ELSE << >>)
                     \o << "- Conditions: **" \o Describe(cur.weather_code) \o "**" >>
                ELSE << >>
        wind == IF intent = "wind_now" /\ cur.wind_kmh # None
                THEN << "- Wind: **" \o Fmt0(cur.wind_kmh[1]) \o " km/h**" >> ELSE << >>
        hum  == IF intent = "humidity_now" /\ cur.humidity_pct # None
                THEN << "- Humidity: **" \o Fmt0(cur.humidity_pct[1]) \o "%**" >> ELSE << >>
        rain == IF intent = "rain_now" /\ cur.rain_mm # None
                THEN << "- Rain (last hour): **" \o Fmt1(cur.rain_mm[1]) \o " mm**" >>
                ELSE << >>
        snow == IF intent = "snow_now" /\ cur.snow_mm # None
                THEN << "- Snowfall (last hour): **" \o Fmt1(cur.snow_mm[1]) \o " mm**" >>
                ELSE << >>
    IN  Returned(tone_prefix \o JoinLines(head \o temp \o wind \o hum \o rain \o snow))

RECURSIVE SumOf(_, _)
SumOf(rows, field) ==
    IF rows = << >> THEN 0 ELSE Head(rows)[field] + SumOf(Tail(rows), field)

RECURSIVE Select(_, _, _)
\* the hourly rows of tomorrow with start <= hour < end, in order
Select(hourly, start, end) ==
    IF hourly = << >> THEN << >>
    ELSE LET h == Head(hourly)
         IN  (IF h.date_offset = 1 /\ start <= h.hour /\ h.hour < end THEN << h >> ELSE << >>)
             \o Select(Tail(hourly), start, end)

TomorrowReply(intent, tod, daily, hourly, location_label, tone_prefix) ==
    LET d == daily[2]       \* daily[1] of the code, which counts from 0
        desc == Describe(d.weather_code)
        hours == tod_hours(tod)
        vals == IF hours # << >> /\ hourly # << >>
                THEN Select(hourly, hours[1], hours[2]) ELSE << >>
    IN  IF intent = "tomorrow_rain"
        THEN FString(<< tone_prefix, "**", location_label, "** tomorrow (", d.date, "): " >>
                     \o (IF d.precip_prob_max # None
                         THEN << "precipitation probability up to **", F0(d.precip_prob_max),
                                 "%**. " >>
                         ELSE << >>)
                     \o (IF d.rain_mm # None
                         THEN << "expected rain ~= **", F1(d.rain_mm), " mm**." >>
                         ELSE << >>))
        ELSE IF vals # << >>
        THEN Returned(tone_prefix \o "**" \o location_label \o "** tomorrow " \o tod
                      \o ": avg precip prob ~ **"
                      \o NatToStr(RoundRatio(SumOf(vals, "precip_prob"), 10 * Len(vals)))
                      \o "%**, rain sum ~ **" \o Fmt1(SumOf(vals, "rain_mm")) \o " mm**.")
        ELSE FString(<< tone_prefix, "**", location_label, "** tomorrow (", d.date, "): **",
                        desc, "**\n",
                        "- Min/Max: **", F1(d.tmin_c), "degC / ", F1(d.tmax_c), "degC**\n",
                        "- Rain: **", F1(d.rain_mm), " mm**, Snow: **", F1(d.snow_mm),
                        " mm**\n",
                        "- Precip. probability (max): **", F0(d.precip_prob_max), "%**" >>)

\* the line of day i in the 3-day list (rain shown) or in the 7-day list
DayLine(d, with_rain) ==
    << "- ", d.date, ": ", Describe(d.weather_code), ", ", F1(d.tmin_c), "-",
       F1(d.tmax_c), "degC" >>
    \o (IF with_rain THEN << ", rain ", F1(d.rain_mm), " mm" >> ELSE << >>)

RECURSIVE DayLines(_, _, _)
DayLines(daily, n, with_rain) ==
    IF n = 0 THEN << >>
    ELSE DayLines(daily, n - 1, with_rain) \o << "\n" >> \o DayLine(daily[n], with_rain)

\* the length test off by one
too_few_days_lenient(daily, n) == Len(daily) < n - 1

\* `not daily or len(daily) < 2`, `len(daily) < 3`, `len(daily) < 7`
too_few_days(daily, n) == Len(daily) < n

\* the intent compared with a misspelt label
is_help_misspelt(intent) == intent = "Help"

\* `intent == "help"`
is_help(intent) == intent = "help"

format_weather_reply(parsed, bundle, location_label) ==
    LET intent == parsed.intent
        horizon == parsed.horizon
        tod == parsed.tod
        cur == bundle.current
        daily == bundle.daily
        hourly == bundle.hourly
        tone_prefix == IF parsed.sentiment = "negative" THEN TONE_PREFIX ELSE ""
    IN  IF intent \in NowIntents /\ horizon = "now"
        THEN NowReply(intent, cur, location_label, tone_prefix)
        ELSE IF horizon = "tomorrow"
        THEN IF too_few_days(daily, 2) THEN Returned(NO_TOMORROW)
             ELSE IF Len(daily) < 2 THEN RAISED     \* IndexError
             ELSE TomorrowReply(intent, tod, daily, hourly, location_label, tone_prefix)
        ELSE IF horizon = "next3days"
        THEN IF too_few_days(daily, 3) THEN Returned(NO_3DAYS)
             ELSE IF Len(daily) < 3 THEN RAISED     \* IndexError
             ELSE FString(<< tone_prefix, "**", location_label, "** - next 3 days:" >>
                          \o DayLines(daily, 3, TRUE))
        ELSE IF horizon = "week"
        THEN IF too_few_days(daily, 7) THEN Returned(NO_WEEK)
             ELSE IF Len(daily) < 7 THEN RAISED     \* IndexError
             ELSE FString(<< tone_prefix, "**", location_label, "** - 7-day outlook:" >>
                          \o DayLines(daily, 7, FALSE))
        ELSE IF is_help(intent) THEN Returned(HELP_TEXT)
        ELSE Returned(FALLBACK_TEXT)

-----------------------------------------------------------------------------
(* weather_service.py: _parse_bundle *)

\* the first index from i on where s has the character sep, 0 when there is none
RECURSIVE IndexFrom(_, _, _)
IndexFrom(s, sep, i) ==
    IF i > Len(s) THEN 0
    ELSE IF Chr(s, i) = sep THEN i
    ELSE IndexFrom(s, sep, i + 1)

\* s.split(sep), sep a single character
RECURSIVE Split(_, _)
Split(s, sep) ==
    LET i == IndexFrom(s, sep, 1)
    IN  IF i = 0 THEN << s >>
        ELSE << SubSeq(s, 1, i - 1) >> \o Split(Suffix(s, i + 1), sep)

\* s[:n]
Prefix(s, n) == SubSeq(s, 1, IF n < Len(s) THEN n ELSE Len(s))

IsNumeral(s) == s # "" /\ \A k \in 1..Len(s) : Chr(s, k) \in DigitSet

DigitValue(c) == CHOOSE d \in 0..9 : Chr(DigitChars, d + 1) = c

RECURSIVE NumeralValue(_)
NumeralValue(s) ==
    IF s = "" THEN 0
    ELSE 10 * NumeralValue(SubSeq(s, 1, Len(s) - 1)) + DigitValue(Chr(s, Len(s)))

\* int(s): the value, or None where int raises ValueError
ParseInt(s) == IF IsNumeral(s) THEN Some(NumeralValue(s)) ELSE None

IsLeap(y) == (y % 4 = 0 /\ y % 100 # 0) \/ y % 400 = 0

DaysInMonth(y, m) ==
    IF m = 2 THEN (IF IsLeap(y) THEN 29 ELSE 28)
    ELSE IF m \in {4, 6, 9, 11} THEN 30 ELSE 31

RECURSIVE DaysBeforeMonth(_, _)
DaysBeforeMonth(y, m) ==
    IF m = 1 THEN 0 ELSE DaysBeforeMonth(y, m - 1) + DaysInMonth(y, m - 1)

\* datetime.date(y, m, d).toordinal(), or None where the constructor raises
DateOrdinal(y, m, d) ==
    IF y \in 1..9999 /\ m \in 1..12 /\ d \in 1..DaysInMonth(y, m)
    THEN Some(365 * (y - 1) + (y - 1) \div 4 - (y - 1) \div 100 + (y - 1) \div 400
              + DaysBeforeMonth(y, m) + d)
    ELSE None

\* the ordinal of "YYYY-MM-DD", or None where map(int, ...), the unpacking or the
\* date constructor raises
ParseDate(s) ==
    LET parts == Split(s, "-")
    IN  IF Len(parts) # 3 THEN None
        ELSE LET ymd == [k \in 1..3 |-> ParseInt(parts[k])]
             IN  IF \E k \in 1..3 : ymd[k] = None THEN None
                 ELSE DateOrdinal(ymd[1][1], ymd[2][1], ymd[3][1])

\* the date part of an ISO time
IsoDate(iso) == IF IndexFrom(iso, "T", 1) > 0 THEN Split(iso, "T")[1] ELSE Prefix(iso, 10)

\* (date - today).days, 0 where either is empty or does not parse
DateOffset(today, date) ==
    IF today = "" \/ date = "" THEN 0
    ELSE LET d1 == ParseDate(today)
             d2 == ParseDate(date)
         IN  IF d1 = None \/ d2 = None THEN 0 ELSE d2[1] - d1[1]

\* arr[i] where i is inside arr and the entry is not None, else the default
\* (i counts from 1 here)
EntryOr(arr, i, default) == IF i <= Len(arr) /\ arr[i] # None THEN arr[i] ELSE default

\* the hour of an ISO time, None where int raises
IsoHour(iso) ==
    IF IndexFrom(iso, "T", 1) > 0 THEN ParseInt(Split(Split(iso, "T")[2], ":")[1])
    ELSE Some(0)

Min(a, b) == IF a < b THEN a ELSE b

parse_bundle(js) ==
    LET cur == js.current
        daily == js.daily
        hourly == js.hourly
        current == [temperature_c |-> cur.temperature_2m,
                    apparent_c |-> cur.apparent_temperature,
                    humidity_pct |-> cur.relative_humidity_2m,
                    precip_mm |-> cur.precipitation,
                    rain_mm |-> cur.rain,
                    snow_mm |-> cur.snowfall,
                    wind_kmh |-> cur.wind_speed_10m,
                    weather_code |-> cur.weather_code,
                    time |-> cur.time]
        daily_list ==
            [i \in 1..Min(Len(daily.time), 7) |->
                [date |-> daily.time[i],
                 tmax_c |-> EntryOr(daily.temperature_2m_max, i, None),
                 tmin_c |-> EntryOr(daily.temperature_2m_min, i, None),
                 weather_code |-> EntryOr(daily.weather_code, i, None),
                 precip_prob_max |-> EntryOr(daily.precipitation_probability_max, i, None),
                 rain_mm |-> EntryOr(daily.rain_sum, i, Some(0)),
                 snow_mm |-> EntryOr(daily.snowfall_sum, i, Some(0))]]
        ht == hourly.time
        now_iso == IF Truthy(current.time) THEN current.time
                   ELSE IF ht # << >> THEN ht[1] ELSE ""
        today == IsoDate(now_iso)
        hourly_list ==
            [i \in 1..Len(ht) |->
                [time |-> ht[i],
                 date_offset |-> DateOffset(today, IsoDate(ht[i])),
                 hour |-> IsoHour(ht[i])[1],
                 precip_prob |-> EntryOr(hourly.precipitation_probability, i, Some(0))[1],
                 rain_mm |-> EntryOr(hourly.rain, i, Some(0))[1],
                 snow_mm |-> EntryOr(hourly.snowfall, i, Some(0))[1],
                 weather_code |-> EntryOr(hourly.weather_code, i, None),
                 wind_kmh |-> EntryOr(hourly.wind_speed_10m, i, None),
                 humidity_pct |-> EntryOr(hourly.relative_humidity_2m, i, None)]]
    IN  IF \E i \in 1..Len(ht) : IsoHour(ht[i]) = None
        THEN RAISED
        ELSE Returned([current |-> current, daily |-> daily_list, hourly |-> hourly_list])

-----------------------------------------------------------------------------
(* The provider's forecast answers *)

\* the provider is asked for 7 days; answers of 0..MaxDays days are tried
MaxDays == 8

ForecastDates ==
    << "2025-02-28", "2025-03-01", "2025-03-02", "2025-03-03", "2025-03-04",
       "2025-03-05", "2025-03-06", "2025-03-07", "2025-03-08", "2025-03-09",
       "2025-03-10", "2025-03-11" >>

\* n entries given by f, for a JSON array
Array(n, f(_)) == [i \in 1..n |-> f(i)]

Null(i) == None
TMax(i) == Some(120 + 15 * i)
TMin(i) == Some(15 * i - 40)
Code(i) == Some(IF i = 2 THEN 4 ELSE 61 + 2 * (i % 3))
Pop(i) == Some(100 * i + 5)
Rain(i) == Some(3 * i)
Snow(i) == Some(0)

\* the "daily" object: nd days; every array full, or the temperatures null, or the
\* probability null, or every array but the dates missing
DailyShapes == {"full", "null_temps", "null_pop", "dates_only"}

DailyJson(nd, shape) ==
    LET n == IF shape = "dates_only" THEN 0 ELSE nd
    IN  [time |-> Array(nd, LAMBDA i : ForecastDates[i]),
         temperature_2m_max |-> IF shape = "null_temps" THEN Array(n, Null) ELSE Array(n, TMax),
         temperature_2m_min |-> IF shape = "null_temps" THEN Array(n, Null) ELSE Array(n, TMin),
         weather_code |-> Array(n, Code),
         precipitation_probability_max |->
             IF shape = "null_pop" THEN Array(n, Null) ELSE Array(n, Pop),
         rain_sum |-> Array(n, Rain),
         snowfall_sum |-> Array(n, Snow)]

CurrentShapes == {"full", "missing"}

CurrentJson(shape) ==
    IF shape = "full"
    THEN [temperature_2m |-> Some(215), apparent_temperature |-> Some(201),
          relative_humidity_2m |-> Some(635), precipitation |-> Some(0), rain |-> Some(4),
          snowfall |-> Some(0), wind_speed_10m |-> Some(125), weather_code |-> Some(3),
          time |-> "2025-02-28T10:15"]
    ELSE [temperature_2m |-> None, apparent_temperature |-> None,
          relative_humidity_2m |-> None, precipitation |-> None, rain |-> None,
          snowfall |-> None, wind_speed_10m |-> None, weather_code |-> None,
          time |-> NONE]

\* the "hourly" object: missing; hours of today and of tomorrow morning; or a time
\* whose hour is no number
HourlyShapes == {"missing", "rows", "bad_time"}

HourlyJson(shape) ==
    LET times == CASE shape = "missing"  -> << >>
                   [] shape = "rows"     -> << "2025-02-28T08:00", "2025-03-01T07:00",
                                               "2025-03-01T11:00", "2025-03-01T13:00" >>
                   [] shape = "bad_time" -> << "2025-03-01Tnoon" >>
        n == Len(times)
    IN  [time |-> times,
         precipitation_probability |-> Array(n, LAMBDA i : IF i = 3 THEN None ELSE Some(150 * i)),
         rain |-> Array(n, Rain),
         snowfall |-> Array(n, Snow),
         weather_code |-> Array(n, Code),
         wind_speed_10m |-> Array(n, TMax),
         relative_humidity_2m |-> Array(n, Pop)]

ForecastJson ==
    {[current |-> CurrentJson(c), daily |-> DailyJson(nd, d), hourly |-> HourlyJson(h)] :
        c \in CurrentShapes, nd \in 0..MaxDays, d \in DailyShapes, h \in HourlyShapes}

\* the answers _parse_bundle makes a bundle of
ParsableJson == {js \in ForecastJson : parse_bundle(js).status = "returned"}

\* the payloads the provider answers get_forecast_bundle with in the specifications
\* below: one day without hours; one day with an hour that is no number; two days
ShortForecast ==
    [current |-> CurrentJson("full"), daily |-> DailyJson(1, "full"),
     hourly |-> HourlyJson("missing")]

BadTimes ==
    [current |-> CurrentJson("full"), daily |-> DailyJson(1, "full"),
     hourly |-> HourlyJson("bad_time")]

TwoDaysJson(shape) ==
    [current |-> CurrentJson("full"), daily |-> DailyJson(2, shape),
     hourly |-> HourlyJson("rows")]

ProviderPayloads ==
    {ShortForecast, BadTimes, TwoDaysJson("full"), TwoDaysJson("null_temps")}

\* _parse_bundle of each of them, evaluated once and looked up from then on
ParsedPayload == [js \in ProviderPayloads |-> parse_bundle(js)]

-----------------------------------------------------------------------------
(* weather_service.py: the cache and the two lookups *)

TTL_SECONDS == 300

\* An optional dict (a geocoding result, a bundle, or None)
Nothing == [none |-> TRUE]
Just(x) == [none |-> FALSE, value |-> x]

\* _cache_get at time t: what it returns and the cache it leaves
cache_get(cache, key, t) ==
    IF key \notin DOMAIN cache
    THEN [data |-> Nothing, cache |-> cache]
    ELSE IF t - cache[key].ts > TTL_SECONDS
    THEN [data |-> Nothing, cache |-> [k \in DOMAIN cache \ {key} |-> cache[k]]]
    ELSE [data |-> cache[key].data, cache |-> cache]

\* _cache_set at time t
cache_set(cache, key, data, t) == (key :> [ts |-> t, data |-> data]) @@ cache

\* the entry _CACHE.get(key) finds, for the record of a call
Found(cache, key) == IF key \in DOMAIN cache THEN Just(cache[key]) ELSE Nothing

\* The provider's answer to a request: the request fails (transport error, HTTP error
\* status, a body that is no JSON or lacks a field), or a JSON body arrives.
FAILS == [kind |-> "fails"]

geo_key(query) == "geo:" \o strip(lower(query))

\* `cached is not None`
is_hit(cached) == ~cached.none

\* geocode_location(query) at time t, the provider answering with response:
\* [ret, cache, contacted, key, found]
geocode_location(cache, t, query, response) ==
    IF ~Truthy(query)
    THEN [ret |-> Nothing, cache |-> cache, contacted |-> FALSE, key |-> NONE,
          found |-> Nothing]
    ELSE LET key == geo_key(query)
             got == cache_get(cache, key, t)
             out(ret, c, contacted) ==
                 [ret |-> ret, cache |-> c, contacted |-> contacted, key |-> key,
                  found |-> Found(cache, key)]
         IN  IF is_hit(got.data) THEN out(got.data, got.cache, FALSE)
             ELSE IF response.kind = "fails" THEN out(Nothing, got.cache, TRUE)
             ELSE IF response.results = << >>
             THEN out(Nothing, cache_set(got.cache, key, Nothing, t), TRUE)
             ELSE LET top == response.results[1]
                      data == Just([name |-> top.name \o ", " \o top.country,
                                    latitude |-> top.latitude,
                                    longitude |-> top.longitude])
                  IN  out(data, cache_set(got.cache, key, data, t), TRUE)

\* f"{x:.4f}" of a coordinate of x hundred-thousandths of a degree
Fmt4(x) ==
    LET r == RoundRatio(Abs(x), 10)
        frac == NatToStr(r % 10000)
        pad == SubSeq("0000", 1, 4 - Len(frac))
    IN  Sign(x) \o NatToStr(r \div 10000) \o "." \o pad \o frac

wx_key(lat, lon) == "wx:" \o Fmt4(lat) \o "," \o Fmt4(lon)

\* get_forecast_bundle(lat, lon) at time t, the provider answering with response
get_forecast_bundle(cache, t, lat, lon, response) ==
    LET key == wx_key(lat, lon)
        got == cache_get(cache, key, t)
        out(ret, c, contacted) ==
            [ret |-> ret, cache |-> c, contacted |-> contacted, key |-> key,
             found |-> Found(cache, key)]
    IN  IF is_hit(got.data) THEN out(got.data, got.cache, FALSE)
        ELSE IF response.kind = "fails" THEN out(Nothing, got.cache, TRUE)
        ELSE LET bundle == ParsedPayload[response.json]
             IN  IF bundle.status = "raised" THEN out(Nothing, got.cache, TRUE)
                 ELSE out(Just(bundle.value),
                          cache_set(got.cache, key, Just(bundle.value), t), TRUE)

-----------------------------------------------------------------------------
(* SpecRules: _predict_intent_rules on every text of at most MaxCues cue phrases *)

MaxCues == 2

CuePhrases ==
    HelpCues \o TemperatureCues \o WindCues \o HumidityCues \o SnowCues \o RainCues
    \o ConditionCues \o << "tomorrow" >> \o ThreeDayCues \o WeekCues
    \o << "week", "Berlin" >>

CueMessages == Phrasings(CuePhrases, MaxCues)

InitRules ==
    /\ MODEL = "absent" /\ SIA = "absent" /\ Idle
    /\ call \in {[op |-> "_predict_intent_rules", text |-> m] : m \in CueMessages}
    /\ result = PENDING

PredictIntentRules ==
    /\ call.op = "_predict_intent_rules" /\ result = PENDING
    /\ result' = Returned(predict_intent_rules(call.text))
    /\ UNCHANGED << MODEL, SIA, session, CACHE, now, call >>

NextRules == PredictIntentRules

SpecRules == InitRules /\ [][NextRules]_vars

\* the cue groups of the variable cues, in the order the cascade tries them
VariableCues ==
    << TemperatureCues, WindCues, HumidityCues, SnowCues, RainCues, ConditionCues >>

\* the first variable group with a cue in t, 0 when there is none
FirstVariable(t) ==
    LET hit == {k \in 1..Len(VariableCues) : HasAny(t, VariableCues[k])}
    IN  IF hit = {} THEN 0 ELSE CHOOSE k \in hit : \A j \in hit : k <= j

CascadeAnswer(t) ==
    LET v == FirstVariable(t)
        tomorrow == Has(t, "tomorrow")
    IN  IF HasAny(t, HelpCues) THEN "help"
        ELSE CASE v = 1 -> "temperature_now"
               [] v = 2 -> "wind_now"
               [] v = 3 -> "humidity_now"
               [] v = 4 -> IF tomorrow THEN "tomorrow_summary" ELSE "snow_now"
               [] v = 5 -> IF tomorrow THEN "tomorrow_rain" ELSE "rain_now"
               [] v = 6 -> "conditions_now"
               [] v = 0 -> IF tomorrow THEN "tomorrow_summary"
                           ELSE IF HasAny(t, ThreeDayCues) THEN "next3days_summary"
                           ELSE IF HasAny(t, WeekCues) THEN "week_summary"
                           ELSE "conditions_now"

\* C3: the rule cascade answers by the fixed order of the cue groups present in the
\* text: help first; else the first variable group in the order temperature, wind,
\* humidity, snow, rain, conditions (snow with "tomorrow" gives tomorrow_summary, rain
\* with "tomorrow" gives tomorrow_rain); else tomorrow, next-3-days, week; else
\* conditions_now.
C3_RuleCascadeOrder ==
    (call.op = "_predict_intent_rules" /\ result.status = "returned")
        => result.value = CascadeAnswer(lower(call.text))

\* a rain cue stands before a wind cue in the text, and wind decides
C3_Witness ==
    /\ call.op = "_predict_intent_rules" /\ result.status = "returned"
    /\ call.text = "shower gust"
    /\ result.value = "wind_now"

-----------------------------------------------------------------------------
(* SpecNlp: interpret_message on the messages, with and without a remembered
   location, coordinates, classifier and sentiment analyzer *)

LastLocations == {NONE, "", "Berlin, Germany"}

AnyArgs ==
    {NoArg, [kind |-> "num", v |-> 3872000], [kind |-> "str", v |-> 3872000],
     [kind |-> "bad"]}

Scores == {-35, -34, 34, 35}

InitNlp ==
    /\ MODEL \in {"absent", "loaded"}
    /\ SIA \in {"absent", "loaded"}
    /\ Idle
    /\ call \in {[op |-> "interpret_message", message |-> m, last_location |-> l,
                  lat |-> a, lon |-> b] :
                    m \in NlpMessages, l \in LastLocations, a \in AnyArgs, b \in AnyArgs}
    /\ result = PENDING

InterpretMessage ==
    /\ call.op = "interpret_message" /\ result = PENDING
    /\ \E classified \in ClassifyOutcomes, score \in Scores :
          result' = [status |-> "returned",
                     value |-> interpret_message(call.message, call.last_location,
                                                 call.lat, call.lon, classified, score),
                     classified |-> IF MODEL = "absent" THEN NONE ELSE classified]
    /\ UNCHANGED << MODEL, SIA, session, CACHE, now, call >>

NextNlp == InterpretMessage

SpecNlp == InitNlp /\ [][NextNlp]_vars

Interpreted == call.op = "interpret_message" /\ result.status = "returned"

\* C1: the record interpret_message returns has error set (with the literal example
\* question in it) exactly when it has neither coords nor location_label; with error
\* null, coords or location_label is set; intent, horizon and tod are filled in both
\* cases.
C1_ErrorIffNoTarget ==
    Interpreted =>
        LET p == result.value
        IN  /\ (p.error # NONE) <=> (~p.coords.set /\ p.location_label = NONE)
            /\ p.error # NONE => Has(p.error, "\"Will it rain in Lisbon tomorrow morning?\"")
            /\ p.error = NONE => (p.coords.set \/ Truthy(p.location_label))
            /\ Truthy(p.intent)
            /\ p.horizon \in Horizons
            /\ p.tod \in TimesOfDay \cup {NONE}

\* "temperature" with nothing remembered and no coordinates: the error case
C1_Witness ==
    /\ Interpreted
    /\ result.value.error = ERR_NEED_LOCATION
    /\ call.message = "temperature" /\ call.last_location = NONE
    /\ IsNone(call.lat) /\ IsNone(call.lon)

\* C2: whatever the message (the empty one included) and whatever the state of the
\* trained model (absent, answering, raising), the intent of the ML-then-rules
\* classification is one of the 11 defined intents.
C2_ClassifierTotality == Interpreted => result.value.intent \in Intents

\* C4: location_label is the location extracted from the message when there is one,
\* and else the remembered last_location; a message without a location, with a
\* non-empty last_location (and no coordinates), gives location_label = last_location
\* and no error.
C4_LocationFallback ==
    Interpreted =>
        LET p == result.value
            extracted == ExtractedLocation[strip(Or(call.message, ""))]
            last == call.last_location
        IN  /\ Truthy(extracted) => (p.location_label = extracted /\ p.error = NONE)
            /\ (~Truthy(extracted) /\ Truthy(last)) =>
                  (p.location_label = last /\ p.error = NONE)
            /\ (~Truthy(extracted) /\ ~Truthy(last)) => ~Truthy(p.location_label)

\* interpret("temperature", last_location = "Berlin, Germany", lat = None, lon = None)
C4_Witness ==
    /\ Interpreted
    /\ call.message = "temperature" /\ call.last_location = "Berlin, Germany"
    /\ IsNone(call.lat) /\ IsNone(call.lon)
    /\ result.value.location_label = "Berlin, Germany"
    /\ result.value.error = NONE

-----------------------------------------------------------------------------
(* SpecFormat: format_weather_reply on every parsed request and every bundle that
   _parse_bundle builds *)

ParsedRequests ==
    {[intent |-> i, horizon |-> h, tod |-> t, coords |-> NoCoords,
      location_label |-> "Paris", sentiment |-> s, error |-> NONE] :
        i \in Intents, h \in Horizons, t \in {NONE, "morning", "night"},
        s \in {NONE, "negative"}}

InitFormat ==
    /\ MODEL = "absent" /\ SIA = "absent" /\ Idle
    /\ call \in {[op |-> "format_weather_reply", parsed |-> p, js |-> j,
                  location_label |-> "Paris"] : p \in ParsedRequests, j \in ParsableJson}
    /\ result = PENDING

FormatWeatherReply ==
    /\ call.op = "format_weather_reply" /\ result = PENDING
    /\ result' = format_weather_reply(call.parsed, parse_bundle(call.js).value,
                                      call.location_label)
    /\ UNCHANGED << MODEL, SIA, session, CACHE, now, call >>

NextFormat == FormatWeatherReply

SpecFormat == InitFormat /\ [][NextFormat]_vars

Formatted == call.op = "format_weather_reply" /\ result.status # "pending"

\* C5: with horizon tomorrow, next3days or week and fewer than 2, 3 or 7 daily
\* entries in the bundle, the reply is the literal "couldn't get" text of that
\* horizon, whatever the intent, the time of day and the sentiment; nothing is raised.
C5_InsufficientDataFallback ==
    Formatted =>
        LET days == Len(parse_bundle(call.js).value.daily)
            h == call.parsed.horizon
        IN  /\ (h = "tomorrow" /\ days < 2) => result = Returned(NO_TOMORROW)
            /\ (h = "next3days" /\ days < 3) => result = Returned(NO_3DAYS)
            /\ (h = "week" /\ days < 7) => result = Returned(NO_WEEK)
            /\ (h # "now" /\ days < 2) => Has(result.value, "I couldn't get")

\* a weekly request with intent help and three days of data
C5_Witness ==
    /\ Formatted
    /\ call.parsed.horizon = "week" /\ call.parsed.intent = "help"
    /\ call.parsed.sentiment = "negative"
    /\ Len(parse_bundle(call.js).value.daily) = 3
    /\ result = Returned(NO_WEEK)

\* C6: format_weather_reply returns a reply for every parsed request and every bundle
\* of _parse_bundle; it never raises.
C6_FormatterNeverRaises == Formatted => result.status = "returned"

\* C7: with intent help the reply is the fixed usage text, whatever the horizon, the
\* time of day, the sentiment, the bundle and the location label are.
C7_HelpAlwaysUsage ==
    (Formatted /\ call.parsed.intent = "help") => result = Returned(HELP_TEXT)

\* C7 as amended: with intent help and horizon now the reply is the fixed usage text,
\* whatever the time of day, the sentiment, the bundle and the location label are.
C7_HelpUsageNow ==
    (Formatted /\ call.parsed.intent = "help" /\ call.parsed.horizon = "now")
        => result = Returned(HELP_TEXT)

\* help asked at night by an unhappy user, with a full week in the bundle
C7_Witness ==
    /\ Formatted
    /\ call.parsed.intent = "help" /\ call.parsed.horizon = "now"
    /\ call.parsed.tod = "night" /\ call.parsed.sentiment = "negative"
    /\ Len(parse_bundle(call.js).value.daily) = 7
    /\ result = Returned(HELP_TEXT)

-----------------------------------------------------------------------------
(* SpecService: geocode_location and get_forecast_bundle called in any order, the
   clock advancing between the calls *)

MaxClock == 302

\* the clock advances by one of these between two calls
Ticks == {150, 151}

GeoQueries == {"", "Lisbon", " LISBON ", "Atlantis"}

LisbonTop ==
    [name |-> "Lisbon", country |-> "Portugal", latitude |-> 3872000, longitude |-> -914000]

NoResults == [kind |-> "json", results |-> << >>]

\* what the geocoding provider may answer to a query
GeoAnswers(query) ==
    {FAILS, NoResults}
    \cup (IF Has(lower(query), "lisbon")
          THEN {[kind |-> "json", results |-> << LisbonTop >>]} ELSE {})

\* two points with the same rounded key, and a third
Points == { << 3872000, -914000 >>, << 3872004, -914000 >>, << 3568000, 13969000 >> }

\* the provider's forecast answers: an outage, a short forecast, a forecast whose
\* hourly times _parse_bundle cannot read
ForecastAnswers == {FAILS, [kind |-> "json", json |-> ShortForecast],
                    [kind |-> "json", json |-> BadTimes]}

InitService ==
    /\ MODEL = "absent" /\ SIA = "absent" /\ Idle
    /\ call = [op |-> "none"]
    /\ result = PENDING

\* the record of a lookup: what it returned, whether the provider was contacted and
\* with what answer, and the entry _CACHE.get found
LookupResult(o, response) ==
    [status |-> "returned", value |-> o.ret, contacted |-> o.contacted,
     answer |-> IF o.contacted THEN response.kind ELSE NONE,
     key |-> o.key, found |-> o.found]

GeocodeLocation ==
    \E q \in GeoQueries : \E r \in GeoAnswers(q) :
        LET o == geocode_location(CACHE, now, q, r)
        IN  /\ CACHE' = o.cache
            /\ call' = [op |-> "geocode_location", query |-> q, at |-> now]
            /\ result' = LookupResult(o, r)
            /\ UNCHANGED << MODEL, SIA, session, now >>

GetForecastBundle ==
    \E pt \in Points : \E r \in ForecastAnswers :
        LET o == get_forecast_bundle(CACHE, now, pt[1], pt[2], r)
        IN  /\ CACHE' = o.cache
            /\ call' = [op |-> "get_forecast_bundle", lat |-> pt[1], lon |-> pt[2],
                        at |-> now]
            /\ result' = LookupResult(o, r)
            /\ UNCHANGED << MODEL, SIA, session, now >>

Tick ==
    \E d \in Ticks :
        /\ now + d <= MaxClock
        /\ now' = now + d
        /\ UNCHANGED << MODEL, SIA, session, CACHE, call, result >>

NextService == GeocodeLocation \/ GetForecastBundle \/ Tick

SpecService == InitService /\ [][NextService]_vars

\* the last call was a lookup that reached the cache
Looked ==
    /\ call.op \in {"geocode_location", "get_forecast_bundle"}
    /\ result.key # NONE

\* age of the entry the lookup found
FoundAge == call.at - result.found.value.ts

\* an entry no older than the TTL is returned and the provider is not contacted,
\* also when the entry holds the geocoder's "no results"
C9_FreshEntryServed ==
    (Looked /\ ~result.found.none /\ FoundAge <= TTL_SECONDS)
        => (~result.contacted /\ result.value = result.found.value.data)

\* an older entry is not returned and is gone from the cache (or replaced by the
\* answer of this call)
C9_StaleEntryEvicted ==
    (Looked /\ ~result.found.none /\ FoundAge > TTL_SECONDS)
        => /\ result.contacted
           /\ result.key \in DOMAIN CACHE => CACHE[result.key].ts = call.at

\* a failed request returns None and stores nothing
C9_FailureStoresNothing ==
    (Looked /\ result.contacted
        /\ (result.answer = "fails"
              \/ (call.op = "get_forecast_bundle" /\ result.value.none)))
        => /\ result.value.none
           /\ result.key \in DOMAIN CACHE =>
                 (~result.found.none /\ CACHE[result.key] = result.found.value)

\* C9: a lookup whose key the provider answered at most 300 s earlier (a geocoding
\* answer of "no results" included) returns the stored answer without contacting the
\* provider; an older entry is never returned and is evicted; a failure returns None
\* and stores nothing.
C9_CacheContract ==
    C9_FreshEntryServed /\ C9_StaleEntryEvicted /\ C9_FailureStoresNothing

\* the same, for the entries that hold an answer other than "no results"
C9_PositiveEntryServed ==
    (Looked /\ ~result.found.none /\ FoundAge <= TTL_SECONDS
        /\ ~result.found.value.data.none)
        => (~result.contacted /\ result.value = result.found.value.data)

-----------------------------------------------------------------------------
(* Spec: the /chat handler of app.py, turn after turn in one session, the clock
   advancing between the turns *)

PROMPT == "Please type a weather question or click **Use my location**."
UNAVAILABLE == "Weather service is temporarily unavailable. Please try again."
YOUR_LOCATION == "your location"

not_found_reply(label) ==
    "I couldn't find **" \o label \o "**. Try a city + country (e.g., *Lisbon, Portugal*)."

\* the assignment to the session left out
remember_nothing(sess, label) == sess

\* session["last_location"] = location_label
remember(sess, label) == [sess EXCEPT !.last_location = label]

Num(v) == [kind |-> "num", v |-> v]

\* lat and lon of a /chat payload: none, or both (a browser in Tokyo)
ChatCoords == { << NoArg, NoArg >>, << Num(3568000), Num(13969000) >> }

\* what the classifier does when it is loaded, and the polarity score when the
\* analyzer is
ChatClassified == IF MODEL = "loaded" THEN {RAISES, "help"} ELSE {RAISES}

ChatScores == IF SIA = "loaded" THEN {-35} ELSE {0}

\* the provider's forecast answers: an outage, two days, two days without temperatures
TwoDays(shape) == [kind |-> "json", json |-> TwoDaysJson(shape)]

ChatForecasts == {FAILS, TwoDays("full"), TwoDays("null_temps")}

\* no parsed request: the turn ended before interpret_message
NoParsed == [error |-> NONE, location_label |-> NONE, coords |-> NoCoords]

Init ==
    /\ MODEL \in {"absent", "loaded"}
    /\ SIA \in {"absent", "loaded"}
    /\ Idle
    /\ call = [op |-> "none"]
    /\ result = PENDING

\* the end of a turn: the reply goes out with the session cookie
Respond(req, outcome, reply, parsed, label, at, sess, cache) ==
    /\ session' = sess
    /\ CACHE' = cache
    /\ call' = [op |-> "chat", message |-> req.message, lat |-> req.lat, lon |-> req.lon,
                last_location |-> session.last_location]
    /\ result' = [status |-> "returned", outcome |-> outcome, reply |-> reply,
                  parsed |-> parsed, label |-> label, at |-> at]
    /\ UNCHANGED << MODEL, SIA, now >>

\* format_weather_reply raised: the turn ends in a server error; whether the session
\* written before it reaches the client depends on how the server is run
Fail(req, parsed, label, at, sess, cache) ==
    /\ session' \in {session, sess}
    /\ CACHE' = cache
    /\ call' = [op |-> "chat", message |-> req.message, lat |-> req.lat, lon |-> req.lon,
                last_location |-> session.last_location]
    /\ result' = [status |-> "raised", outcome |-> "server_error", reply |-> NONE,
                  parsed |-> parsed, label |-> label, at |-> at]
    /\ UNCHANGED << MODEL, SIA, now >>

\* the answers the provider may give to a lookup of key: it is asked only when the
\* cache has no answer to serve
Asked(cache, key, answers) ==
    IF is_hit(cache_get(cache, key, now).data) THEN {FAILS} ELSE answers

\* lines 58-64 of chat(): fetch the forecast for lat, lon and format the reply
Fetch(req, parsed, lat, lon, label, sess, cache) ==
    \E w \in Asked(cache, wx_key(lat, lon), ChatForecasts) :
    \E wx \in {get_forecast_bundle(cache, now, lat, lon, w)} :
    \E at \in {[set |-> TRUE, lat |-> lat, lon |-> lon]} :
        IF wx.ret.none
        THEN Respond(req, "unavailable", UNAVAILABLE, parsed, label, at, sess, wx.cache)
        ELSE \E bundle \in {wx.ret.value} :
             \E reply \in {format_weather_reply(parsed, bundle, label)} :
                 IF reply.status = "raised"
                 THEN Fail(req, parsed, label, at, sess, wx.cache)
                 ELSE Respond(req, "weather", reply.value, parsed, label, at, sess,
                              wx.cache)

\* lines 45-56 of chat(): the coordinates of the request, or those of the geocoded label
Resolve(req, parsed) ==
    IF parsed.coords.set
    THEN \E label \in {Or(parsed.location_label, YOUR_LOCATION)} :
            Fetch(req, parsed, parsed.coords.lat, parsed.coords.lon, label,
                  remember(session, label), CACHE)
    ELSE \E g \in Asked(CACHE, geo_key(parsed.location_label),
                        GeoAnswers(parsed.location_label)) :
         \E geo \in {geocode_location(CACHE, now, parsed.location_label, g)} :
            IF geo.ret.none
            THEN Respond(req, "not_found", not_found_reply(parsed.location_label),
                         parsed, NONE, NoCoords, session, geo.cache)
            ELSE Fetch(req, parsed, geo.ret.value.latitude, geo.ret.value.longitude,
                       geo.ret.value.name, remember(session, geo.ret.value.name),
                       geo.cache)

\* POST /chat
Chat ==
    \E m \in ChatMessages, xy \in ChatCoords, classified \in ChatClassified,
       score \in ChatScores :
    \E req \in {[message |-> m, lat |-> xy[1], lon |-> xy[2]]} :
    \E msg \in {strip(Or(m, ""))} :
        IF ~Truthy(msg) /\ (IsNone(req.lat) \/ IsNone(req.lon))
        THEN Respond(req, "prompt", PROMPT, NoParsed, NONE, NoCoords, session, CACHE)
        ELSE \E parsed \in {interpret_message(msg, session.last_location, req.lat,
                                              req.lon, classified, score)} :
                IF Truthy(parsed.error)
                THEN Respond(req, "error", parsed.error, parsed, NONE, NoCoords, session,
                             CACHE)
                ELSE Resolve(req, parsed)

\* time passes between two turns, long enough for a cache entry to go stale
Elapse ==
    /\ now + TTL_SECONDS + 1 <= MaxClock
    /\ now' = now + TTL_SECONDS + 1
    /\ UNCHANGED << MODEL, SIA, session, CACHE, call, result >>

Next == Chat \/ Elapse

Spec == Init /\ [][Next]_vars

\* the last thing that happened in the session is a turn
Chatted == call.op = "chat"

\* a turn whose message names no location and that comes without coordinates
FollowUp ==
    /\ Chatted /\ result.outcome # "prompt"
    /\ ~Truthy(ExtractedLocation[strip(Or(call.message, ""))])
    /\ (IsNone(call.lat) \/ IsNone(call.lon))

\* C8: in every sequence of /chat turns of a session, after a turn that returns a
\* formatted weather reply the session's last_location is the label resolved for that
\* turn, and a next turn without a location in the message and without coordinates is
\* interpreted against that label.
C8_SessionCarriesLocation ==
    [][ (call'.op = "chat" /\ now' = now) =>
          /\ result'.outcome = "weather" => session'.last_location = result'.label
          /\ (Chatted /\ result.outcome = "weather" /\ FollowUp') =>
                (result'.parsed.location_label = result.label
                   /\ result'.parsed.error = NONE)
      ]_vars

\* "temperature" after a turn that resolved Lisbon
C8_Witness ==
    /\ Chatted /\ FollowUp
    /\ call.message = "temperature"
    /\ call.last_location = "Lisbon, Portugal"
    /\ result.parsed.location_label = "Lisbon, Portugal"
    /\ result.outcome = "weather"
    /\ session.last_location = "Lisbon, Portugal"

\* C10: a turn that does not end in a formatted weather reply (the empty-input
\* prompt, the need-location error, a geocoding failure, the forecast service
\* unavailable) leaves the session's last_location as it was before the turn.
C10_FailedTurnKeepsSession ==
    (Chatted /\ result.outcome \in {"prompt", "error", "not_found", "unavailable"})
        => session.last_location = call.last_location

\* the coordinates the geocoding provider has for a label
PlacesNamed(label) ==
    {[set |-> TRUE, lat |-> a.results[1].latitude, lon |-> a.results[1].longitude] :
        a \in {x \in GeoAnswers(label) : x.kind = "json" /\ x.results # << >>}}

\* a turn that ended in a formatted weather reply
Successful == Chatted /\ result.outcome = "weather"

\* the label of the reply names the place the forecast was fetched for
C11_LabelNamesPlace == Successful => result.at \in PlacesNamed(result.label)

\* the location the interpreter resolved (named in the message, or remembered) is
\* the one the forecast is fetched for, with or without lat/lon in the request
C11_ForecastForNamedLocation ==
    (Successful /\ Truthy(result.parsed.location_label))
        => result.at \in PlacesNamed(result.parsed.location_label)

\* the label stored in the session is one a later turn can resolve
C11_StoredLabelResolvable ==
    Successful => (session.last_location = result.label
                     /\ PlacesNamed(session.last_location) # {})

\* C11: in every successful /chat turn the label shown in the reply and stored in the
\* session names the place whose coordinates the forecast was fetched for: a location
\* named in the message (or remembered) is the one the forecast is fetched for, also
\* when the request carries lat/lon, and the stored label is never a placeholder that
\* a later turn cannot resolve.
C11_LabelMatchesForecast ==
    C11_LabelNamesPlace /\ C11_ForecastForNamedLocation /\ C11_StoredLabelResolvable

-----------------------------------------------------------------------------
(* SpecHorizon: a message goes through the rule cascade and _extract_time_window, as
   in interpret_message without a trained model, and the two answers go to
   format_weather_reply with a full week of forecast *)

WeekBundle ==
    parse_bundle([current |-> CurrentJson("full"), daily |-> DailyJson(7, "full"),
                  hourly |-> HourlyJson("rows")]).value

InitHorizon ==
    /\ MODEL = "absent" /\ SIA = "absent" /\ Idle
    /\ call \in {[op |-> "interpret", text |-> m] : m \in CueMessages}
    /\ result = PENDING

\* lines 193 and 196 of interpret_message: horizon and tod, and the intent of the rules
ClassifyAndWindow ==
    /\ call.op = "interpret" /\ result = PENDING
    /\ \E tw \in {extract_time_window(call.text)} :
          result' = [status |-> "parsed",
                     parsed |-> [intent |-> predict_intent_rules(call.text),
                                 horizon |-> tw[1], tod |-> tw[2], sentiment |-> NONE]]
    /\ UNCHANGED << MODEL, SIA, session, CACHE, now, call >>

\* line 63 of chat(): the parsed request is formatted
FormatParsed ==
    /\ call.op = "interpret" /\ result.status = "parsed"
    /\ result' = [status |-> "replied", parsed |-> result.parsed,
                  reply |-> format_weather_reply(result.parsed, WeekBundle, "Paris")]
    /\ UNCHANGED << MODEL, SIA, session, CACHE, now, call >>

NextHorizon == ClassifyAndWindow \/ FormatParsed

SpecHorizon == InitHorizon /\ [][NextHorizon]_vars

\* the message went through both functions
Windowed == call.op = "interpret" /\ result.status \in {"parsed", "replied"}

ForecastIntents ==
    {"tomorrow_summary", "tomorrow_rain", "next3days_summary", "week_summary"}

\* a tomorrow intent of the rules comes with horizon tomorrow
C12_TomorrowAgrees ==
    (Windowed /\ result.parsed.intent \in {"tomorrow_summary", "tomorrow_rain"})
        => result.parsed.horizon = "tomorrow"

\* next3days_summary comes with horizon next3days
C12_ThreeDaysAgrees ==
    (Windowed /\ result.parsed.intent = "next3days_summary")
        => result.parsed.horizon = "next3days"

\* week_summary comes with horizon week
C12_WeekAgrees ==
    (Windowed /\ result.parsed.intent = "week_summary") => result.parsed.horizon = "week"

\* a forecast intent does not get the generic capability text for a reply
C12_NoGenericFallback ==
    (call.op = "interpret" /\ result.status = "replied"
        /\ result.parsed.intent \in ForecastIntents)
        => result.reply # Returned(FALLBACK_TEXT)

\* C12: for every message the rule cascade classifies, intent and horizon agree:
\* tomorrow_summary and tomorrow_rain come with horizon tomorrow, next3days_summary
\* with next3days, week_summary with week; so no message with a forecast intent gets
\* the formatter's generic capability fallback.
C12_IntentHorizonAgree ==
    C12_TomorrowAgrees /\ C12_ThreeDaysAgrees /\ C12_WeekAgrees /\ C12_NoGenericFallback

====
